---- MODULE Spec2Model ----
(***************************************************************************)
(* Descriptor guards (PtyMaster, InotifyFd), the PTY bring-up operations,  *)
(* openpty, the inotify watch operations and InotifyEvent::filename of     *)
(* nix, modelled over a small kernel: a descriptor table with lowest-free  *)
(* allocation, per-instance watch tables and the thread's errno.           *)
(***************************************************************************)
EXTENDS Integers, Sequences, FiniteSets, TLC

\* ------------------------------------------------------------- bounds
\* Size of the process's descriptor table.
MaxFd == 3
\* Number of guards (PtyMaster or InotifyFd) ever constructed in a run.
MaxGuards == 2
\* Largest watch descriptor an inotify instance hands out in a run.
MaxWd == 2
\* Length of the name buffer of ptsname_r, which is 64 in the source.
NameBufLen == 4
\* Number of threads that call ptsname and ptsname_r concurrently.
MaxThreads == 2

Fds == 0 .. (MaxFd - 1)

\* ------------------------------------------------------------- values
\* Result<T>: Ok(val) or Err(err); err is an errno name.
Ok(v) == [ok |-> TRUE, val |-> v, err |-> "none"]
Err(e) == [ok |-> FALSE, val |-> -1, err |-> e]

\* One outcome of one kernel (libc) call: the returned integer, the error
\* code of a failed call ("none" when it succeeded) and whether libc stored
\* that code in errno.
KOk(v) == [ret |-> v, code |-> "none", sets |-> TRUE, name |-> -1]
KFail(c) == [ret |-> -1, code |-> c, sets |-> TRUE, name |-> -1]
\* ptsname: a non-null pointer (1) to the static buffer, which holds the
\* bytes n, or the null pointer (0).
KName(n) == [ret |-> 1, code |-> "none", sets |-> TRUE, name |-> n]
KNull(c) == [ret |-> 0, code |-> c, sets |-> TRUE, name |-> -1]
\* ptsname_r: 0 and the caller's buffer holding the bytes n, or a nonzero
\* return on failure; storing the code in errno as well is up to the libc.
KNameR(n) == [ret |-> 0, code |-> "none", sets |-> TRUE, name |-> n]
KFailR(c, s) == [ret |-> 1, code |-> c, sets |-> s, name |-> -1]
\* openpty: 0 and the two new descriptors stored through the pointers, or -1
\* and nothing stored.
KPair(m, sl) ==
    [ret |-> 0, code |-> "none", sets |-> TRUE, name |-> -1, stored |-> TRUE,
     master |-> m, slave |-> sl]
KPairFail(c) ==
    [ret |-> -1, code |-> c, sets |-> TRUE, name |-> -1, stored |-> FALSE,
     master |-> -1, slave |-> -1]

\* Failures the kernel may answer any call with.
KernelErrs == {"EINTR"}

VARIABLES
    client,     \* the subsystem this process is a client of: the two share
                \* no code path, and a run uses "pty" or "inotify"
    fdtab,      \* kernel: Fds -> "free" | "ptm" | "pts" | "inotify"
    granted,    \* kernel: the master descriptors grantpt succeeded on
    unlocked,   \* kernel: the master descriptors whose slave is unlocked
    watches,    \* kernel: Fds -> set of [wd, path, mask] of an instance
    nextWd,     \* kernel: Fds -> next watch descriptor of an instance
    errno,      \* libc: the calling thread's errno
    guards,     \* Seq of [kind, fd, st, closes]: every guard constructed
    owned,      \* raw descriptors the caller owns (into_raw_fd, openpty)
    wds,        \* WatchFd values the caller holds: set of [wd, from]
    last,       \* the operation that just returned
    ev,         \* the event record being viewed (InotifyEvent section)
    threads,    \* the threads calling ptsname and ptsname_r concurrently
    bufs,       \* name buffers: libc's static one (0) and one per thread
    dec         \* the decoder of one read buffer: offset and events so far

vars == <<client, fdtab, granted, unlocked, watches, nextWd, errno, guards,
          owned, wds, last, ev, threads, bufs, dec>>

kernelVars == <<fdtab, granted, unlocked, watches, nextWd>>

\* What `last` records of an operation: its name, the guard it ran on (0:
\* none), what it passed to the kernel, how many kernel calls it made, the
\* outcome of the first of them and what it returned.
Op(name, g, arg, run, k) ==
    [op |-> name, g |-> g, arg |-> arg, calls |-> run.calls, k |-> k,
     res |-> run.res]
NoOp == [op |-> "none", g |-> 0, arg |-> -1, calls |-> 0, k |-> KOk(0),
         res |-> Ok(0)]

\* What a library function did: its result, the number of kernel calls it
\* made and errno when it returned.
Done(res, n, en) == [res |-> res, calls |-> n, en |-> en]

FreeFds == {f \in Fds : fdtab[f] = "free"}
LowestFree == CHOOSE f \in FreeFds : \A h \in FreeFds : f <= h

\* errno after one libc call with outcome k, when it was e0 before.
ErrnoAfter(e0, k) == IF k.code # "none" /\ k.sets THEN k.code ELSE e0

LiveGuards(kind) ==
    {g \in 1 .. Len(guards) : guards[g].kind = kind /\ guards[g].st = "live"}

IsOpen(fd) == fd \in Fds /\ fdtab[fd] # "free"
IsPtm(fd) == fd \in Fds /\ fdtab[fd] = "ptm"
IsInotify(fd) == fd \in Fds /\ fdtab[fd] = "inotify"

\* ------------------------------------------------------------- kernel
\* The outcomes the kernel can give each call in the current state.
\* The slave of the master open at descriptor fd is named after fd: '/' and
\* the digit of fd.
SlaveName(fd) == <<47, 48 + fd>>

\* A name as a name buffer holds it: its bytes, a NUL, and zeros up to the
\* end of the buffer.
InBuffer(n) == [i \in 1 .. NameBufLen |-> IF i <= Len(n) THEN n[i] ELSE 0]

K_fail == {KFail(c) : c \in KernelErrs}
K_open == IF FreeFds = {} THEN {KFail("EMFILE")} ELSE {KOk(LowestFree)} \cup K_fail
K_master(fd) == IF IsPtm(fd) THEN {KOk(0)} \cup K_fail ELSE {KFail("EBADF")}
K_ptsname(fd) ==
    IF IsPtm(fd) THEN {KName(InBuffer(SlaveName(fd)))} \cup {KNull(c) : c \in KernelErrs}
    ELSE {KNull("EBADF")}
K_ptsname_r(fd) ==
    IF IsPtm(fd)
    THEN {KNameR(InBuffer(SlaveName(fd)))}
         \cup {KFailR(c, s) : c \in KernelErrs, s \in BOOLEAN}
    ELSE {KFailR("EBADF", s) : s \in BOOLEAN}
K_close(fd) == IF IsOpen(fd) THEN {KOk(0)} \cup K_fail ELSE {KFail("EBADF")}
\* A second close of the same value finds it closed.
K_reclose == {KFail("EBADF")}

\* close(fd): the descriptor is released whatever close returns.
KClose(fd) ==
    /\ fdtab' = [fdtab EXCEPT ![fd] = "free"]
    /\ granted' = granted \ {fd}
    /\ unlocked' = unlocked \ {fd}
    /\ watches' = [watches EXCEPT ![fd] = {}]
    /\ nextWd' = [nextWd EXCEPT ![fd] = 1]

\* Paths that exist, one that does not, and the event masks callers pass
\* (IN_MODIFY, IN_DELETE, or no bit at all).
Paths == {"p", "q"}
NoPath == "nx"
Masks == {0, 2, 512}

WdsOf(ws) == {w.wd : w \in ws}
WatchesAt(fd) == IF fd \in Fds THEN watches[fd] ELSE {}
K_add(fd, path, mask) ==
    IF ~IsInotify(fd) THEN {KFail("EBADF")}
    ELSE IF path \notin Paths THEN {KFail("ENOENT")}
    ELSE IF mask = 0 THEN {KFail("EINVAL")}
    ELSE IF \E w \in watches[fd] : w.path = path
    THEN {KOk(w.wd) : w \in {x \in watches[fd] : x.path = path}}
    ELSE {KOk(nextWd[fd])}
K_rm(fd, wd) ==
    IF ~IsInotify(fd) THEN {KFail("EBADF")}
    ELSE IF wd \in WdsOf(watches[fd]) THEN {KOk(0)}
    ELSE {KFail("EINVAL")}

\* inotify_add_watch succeeded on (fd, path, mask): the path's watch takes
\* the mask, a new watch taking the next watch descriptor.
KAdd(fd, path, mask) ==
    IF \E w \in watches[fd] : w.path = path
    THEN /\ watches' = [watches EXCEPT ![fd] =
                {IF w.path = path THEN [w EXCEPT !.mask = mask] ELSE w : w \in @}]
         /\ UNCHANGED nextWd
    ELSE /\ watches' = [watches EXCEPT ![fd] =
                @ \cup {[wd |-> nextWd[fd], path |-> path, mask |-> mask]}]
         /\ nextWd' = [nextWd EXCEPT ![fd] = @ + 1]

\* The outcomes a repeated call can get: it succeeds when the call can.
Retry(K) == IF \E k \in K : k.code = "none" THEN {k \in K : k.code = "none"} ELSE K

\* The kernel calls an operation made, in order.
Made(run, k1, k2) == IF run.calls = 1 THEN <<k1>> ELSE <<k1, k2>>
Succeeded(run, k1, k2) ==
    \E i \in 1 .. Len(Made(run, k1, k2)) : Made(run, k1, k2)[i].code = "none"

\* ------------------------------------------------------------- library
\* Each function takes the outcome k1 of its kernel call, the outcome k2 a
\* second call would get, and errno on entry.

\* unistd::close: one close, its failure as an Err.
unistd_close(k1, k2, e0) ==
    LET e1 == ErrnoAfter(e0, k1)
    IN  IF k1.ret < 0 THEN Done(Err(e1), 1, e1) ELSE Done(Ok(0), 1, e1)

\* AsRawFd for PtyMaster and InotifyFd: self.0.
as_raw_fd(gr) == gr.fd

\* IntoRawFd for PtyMaster: the descriptor, and the guard forgotten, so that
\* its Drop does not run.
into_raw_fd_dropping(gr) == [fd |-> gr.fd, st |-> "released", drops |-> TRUE]
into_raw_fd(gr) == [fd |-> gr.fd, st |-> "released", drops |-> FALSE]

\* Drop for PtyMaster: `let _ = close(self.0)`, the result discarded.
PtyMaster_drop_leaking(k1, k2, e0) == Done(Ok(0), 0, e0)
PtyMaster_drop(k1, k2, e0) ==
    LET c1 == unistd_close(k1, k2, e0) IN Done(Ok(0), c1.calls, c1.en)

\* posix_openpt: a guard around the new descriptor, or the error.
posix_openpt_unchecked(k1, k2, e0) ==
    Done(Ok(k1.ret), 1, ErrnoAfter(e0, k1))
posix_openpt(k1, k2, e0) ==
    LET fd == k1.ret
        e1 == ErrnoAfter(e0, k1)
    IN  IF fd < 0 THEN Done(Err(e1), 1, e1) ELSE Done(Ok(fd), 1, e1)

grantpt_unchecked(k1, k2, e0) == Done(Ok(0), 1, ErrnoAfter(e0, k1))
grantpt(k1, k2, e0) ==
    LET e1 == ErrnoAfter(e0, k1)
    IN  IF k1.ret < 0 THEN Done(Err(e1), 1, e1) ELSE Done(Ok(0), 1, e1)

unlockpt_unchecked(k1, k2, e0) == Done(Ok(0), 1, ErrnoAfter(e0, k1))
unlockpt(k1, k2, e0) ==
    LET e1 == ErrnoAfter(e0, k1)
    IN  IF k1.ret < 0 THEN Done(Err(e1), 1, e1) ELSE Done(Ok(0), 1, e1)

\* The index of the first NUL of b, 0 when it holds none.
FirstNul(b) ==
    IF \E i \in 1 .. Len(b) : b[i] = 0
    THEN CHOOSE i \in 1 .. Len(b) : b[i] = 0 /\ \A j \in 1 .. (i - 1) : b[j] # 0
    ELSE 0

\* UTF-8 of one- and two-byte sequences: an ASCII byte, or a lead byte
\* 0xC2..0xDF and one continuation byte 0x80..0xBF.
IsAscii(c) == c < 128
IsPair(s) == Len(s) >= 2 /\ s[1] \in 194 .. 223 /\ s[2] \in 128 .. 191
RECURSIVE IsUtf8(_)
IsUtf8(s) ==
    IF s = <<>> THEN TRUE
    ELSE IF IsAscii(s[1]) THEN IsUtf8(Tail(s))
    ELSE IF IsPair(s) THEN IsUtf8(SubSeq(s, 3, Len(s)))
    ELSE FALSE

\* String::from_utf8(v)?: the bytes as they are, or the decoding error.
String_from_utf8(v) == IF IsUtf8(v) THEN Ok(v) ELSE Err("InvalidUtf8")

\* to_string_lossy: every byte that starts no valid sequence becomes U+FFFD.
Replacement == <<239, 191, 189>>
RECURSIVE to_string_lossy(_)
to_string_lossy(s) ==
    IF s = <<>> THEN <<>>
    ELSE IF IsAscii(s[1]) THEN <<s[1]>> \o to_string_lossy(Tail(s))
    ELSE IF IsPair(s) THEN <<s[1], s[2]>> \o to_string_lossy(SubSeq(s, 3, Len(s)))
    ELSE Replacement \o to_string_lossy(Tail(s))

\* The buffer a call made by thread t reads the name from: ptsname the one
\* static buffer of libc (0), ptsname_r the name_buf of that call (t).
ptsname_buffer_own(t) == t
ptsname_buffer(t) == 0
ptsname_r_buffer_shared(t) == 0
ptsname_r_buffer(t) == t

\* CStr::from_ptr(name_ptr): the bytes before the first NUL.
CStr_from_ptr(b) == SubSeq(b, 1, FirstNul(b) - 1)

\* ptsname: the name copied out of the static buffer, or the error.
ptsname(k1, k2, e0) ==
    LET e1 == ErrnoAfter(e0, k1)
    IN  IF k1.ret = 0 THEN Done(Err(e1), 1, e1)
        ELSE Done(Ok(to_string_lossy(CStr_from_ptr(k1.name))), 1, e1)

\* A thread that panicked: the call never returned.
Panicked == [ok |-> FALSE, val |-> -1, err |-> "panic"]

\* The buffer ptsname_r hands to libc: vec![0u8; 64], and its length.
name_buf_over == [bytes |-> [i \in 1 .. NameBufLen |-> 0], len |-> NameBufLen + 1]
name_buf == [bytes |-> [i \in 1 .. NameBufLen |-> 0], len |-> NameBufLen]

\* ptsname_r: a nonzero return is the failure, and the error is read from
\* errno (Error::last()), not from the return value; else the buffer is cut
\* at its first NUL and converted.
ptsname_r_lossy(k1, k2, e0) ==
    LET e1 == ErrnoAfter(e0, k1)
    IN  IF k1.ret # 0 THEN Done(Err(e1), 1, e1)
        ELSE Done(Ok(to_string_lossy(CStr_from_ptr(k1.name))), 1, e1)
ptsname_r(k1, k2, e0) ==
    LET e1 == ErrnoAfter(e0, k1)
        null_index == FirstNul(k1.name)
    IN  IF k1.ret # 0 THEN Done(Err(e1), 1, e1)
        ELSE IF null_index = 0 THEN Done(Panicked, 1, e1)
        ELSE Done(String_from_utf8(SubSeq(k1.name, 1, null_index - 1)), 1, e1)

\* Errno::result: -1 is the failure, its code read from errno.
Errno_result(ret, en) == IF ret = -1 THEN Err(en) ELSE Ok(ret)

\* openpty: master and slave start as -1 and the kernel stores the new
\* descriptors through the pointers; the pair is returned unless the call
\* failed.
openpty_ignoring(k1, k2, e0) ==
    Done(Ok(<<k1.master, k1.slave>>), 1, ErrnoAfter(e0, k1))
openpty(k1, k2, e0) ==
    LET master == IF k1.stored THEN k1.master ELSE -1
        slave == IF k1.stored THEN k1.slave ELSE -1
        e1 == ErrnoAfter(e0, k1)
        r == Errno_result(k1.ret, e1)
    IN  IF ~r.ok THEN Done(r, 1, e1) ELSE Done(Ok(<<master, slave>>), 1, e1)

\* inotify_init1: Errno::result(res).map(|r| r as RawFd)
inotify_init1(k1, k2, e0) ==
    LET e1 == ErrnoAfter(e0, k1) IN Done(Errno_result(k1.ret, e1), 1, e1)

\* InotifyFd::new: try!(inotify_init1(flags)), then Ok(InotifyFd(fd))
InotifyFd_new_unchecked(k1, k2, e0) == Done(Ok(k1.ret), 1, ErrnoAfter(e0, k1))
InotifyFd_new(k1, k2, e0) ==
    LET r == inotify_init1(k1, k2, e0)
    IN  IF ~r.res.ok THEN r ELSE Done(Ok(r.res.val), r.calls, r.en)

\* inotify_add: Errno::result of inotify_add_watch(fd, path, mask)
inotify_add_status(k1, k2, e0) ==
    LET e1 == ErrnoAfter(e0, k1)
        r == Errno_result(k1.ret, e1)
    IN  IF r.ok THEN Done(Ok(0), 1, e1) ELSE Done(r, 1, e1)
inotify_add(k1, k2, e0) ==
    LET e1 == ErrnoAfter(e0, k1) IN Done(Errno_result(k1.ret, e1), 1, e1)

\* InotifyFd::add: inotify_add(self.0, path, mask).map(|wd| WatchFd(wd))
InotifyFd_add_args(gr, path, mask) == [fd |-> gr.fd, path |-> path, mask |-> mask]
InotifyFd_add(k1, k2, e0) == inotify_add(k1, k2, e0)

\* inotify_rm: Errno::result of inotify_rm_watch(fd, wd.0), mapped to ()
inotify_rm_swallowing(k1, k2, e0) == Done(Ok(0), 1, ErrnoAfter(e0, k1))
inotify_rm(k1, k2, e0) ==
    LET e1 == ErrnoAfter(e0, k1)
        r == Errno_result(k1.ret, e1)
    IN  IF r.ok THEN Done(Ok(0), 1, e1) ELSE Done(r, 1, e1)

\* InotifyFd::rm: inotify_rm(self.0, wd)
InotifyFd_rm_args_swapped(gr, w) == [fd |-> w, wd |-> gr.fd]
InotifyFd_rm_args(gr, w) == [fd |-> gr.fd, wd |-> w]
InotifyFd_rm(k1, k2, e0) == inotify_rm(k1, k2, e0)

\* Drop for InotifyFd: `let _ = unistd::close(self.0)`
InotifyFd_drop_retrying(k1, k2, e0) ==
    LET c1 == unistd_close(k1, k2, e0)
    IN  IF c1.res.ok THEN Done(Ok(0), 1, c1.en)
        ELSE Done(Ok(0), 2, unistd_close(k2, k2, c1.en).en)
InotifyFd_drop(k1, k2, e0) ==
    LET c1 == unistd_close(k1, k2, e0) IN Done(Ok(0), c1.calls, c1.en)

\* ------------------------------------------------------------- InotifyEvent
\* #[repr(C)] struct InotifyEvent: wd, mask, cookie and len take HeaderSize
\* bytes, and the field `name: *const char` the PtrSize bytes after them.
HeaderSize == 16
PtrSize == 8
\* Records in one read, the name length the kernel declares in a record
\* that carries a name, and the address the read buffer starts at.
MaxRecords == 2
NameSlot == 16
BufBase == 32
MemTop == BufBase + MaxRecords * (HeaderSize + NameSlot) + PtrSize

\* A buffer as one read returns it: whole records back to back, each a
\* header and len bytes of name.
Records ==
    {[wd |-> w, mask |-> 2, cookie |-> 0, len |-> l] : w \in 1 .. 2, l \in {0, NameSlot}}
Buffers == UNION {[1 .. n -> Records] : n \in 1 .. MaxRecords}
RECURSIVE BytesOf(_)
BytesOf(b) ==
    IF b = <<>> THEN 0
    ELSE HeaderSize + b[Len(b)].len + BytesOf(SubSeq(b, 1, Len(b) - 1))

\* The values the PtrSize bytes after a header can hold when read as a
\* pointer: they are name bytes, the next header or whatever follows the
\* buffer.
Pointers == {a \in 0 .. MemTop : a % PtrSize = 0}

\* An InotifyEvent over the bytes of record i of buffer b: the header fields,
\* and `name` the pointer-sized value p found after them.
EventAt(b, i, p) ==
    [wd |-> b[i].wd, mask |-> b[i].mask, cookie |-> b[i].cookie,
     len |-> b[i].len, name |-> p]

\* InotifyEvent::filename: slice::from_raw_parts(self.name, self.len)
filename(e) == [start |-> e.name, len |-> e.len]

NoEv == [buf |-> <<>>, at |-> 0, cur |-> EventAt(<<[wd |-> 0, mask |-> 0,
         cookie |-> 0, len |-> 0]>>, 1, 0), span |-> [start |-> 0, len |-> 0],
         step |-> "idle"]

NoThreads == <<>>
NoBufs == <<>>
NoDec == [buf |-> <<>>, off |-> 0, out |-> <<>>, step |-> "idle"]

\* ------------------------------------------------------------- actions
NewGuard(kind, fd) == [kind |-> kind, fd |-> fd, st |-> "live", closes |-> 0]

KCloseIf(fd) == IF IsOpen(fd) THEN KClose(fd) ELSE UNCHANGED kernelVars

\* let master_fd = posix_openpt(flags)
PosixOpenpt ==
    /\ client = "pty"
    /\ Len(guards) < MaxGuards
    /\ \E k1 \in K_open, k2 \in Retry(K_open) :
        LET run == posix_openpt(k1, k2, errno)
        IN  /\ IF Succeeded(run, k1, k2)
               THEN fdtab' = [fdtab EXCEPT ![LowestFree] = "ptm"]
               ELSE UNCHANGED fdtab
            /\ guards' = IF run.res.ok
                         THEN Append(guards, NewGuard("PtyMaster", run.res.val))
                         ELSE guards
            /\ errno' = run.en
            /\ last' = Op("posix_openpt", IF run.res.ok THEN Len(guards) + 1 ELSE 0,
                          -1, run, k1)
    /\ UNCHANGED <<client, granted, unlocked, watches, nextWd, owned, wds,
                   ev, threads, bufs, dec>>

\* grantpt(&master_fd)
Grantpt(g) ==
    /\ g \in LiveGuards("PtyMaster")
    /\ LET fd == as_raw_fd(guards[g])
       IN  \E k1 \in K_master(fd), k2 \in Retry(K_master(fd)) :
            LET run == grantpt(k1, k2, errno)
            IN  /\ granted' = IF Succeeded(run, k1, k2) THEN granted \cup {fd}
                              ELSE granted
                /\ errno' = run.en
                /\ last' = Op("grantpt", g, fd, run, k1)
    /\ UNCHANGED <<client, fdtab, unlocked, watches, nextWd, guards, owned,
                   wds, ev, threads, bufs, dec>>

\* unlockpt(&master_fd)
Unlockpt(g) ==
    /\ g \in LiveGuards("PtyMaster")
    /\ LET fd == as_raw_fd(guards[g])
       IN  \E k1 \in K_master(fd), k2 \in Retry(K_master(fd)) :
            LET run == unlockpt(k1, k2, errno)
            IN  /\ unlocked' = IF Succeeded(run, k1, k2) THEN unlocked \cup {fd}
                               ELSE unlocked
                /\ errno' = run.en
                /\ last' = Op("unlockpt", g, fd, run, k1)
    /\ UNCHANGED <<client, fdtab, granted, watches, nextWd, guards, owned,
                   wds, ev, threads, bufs, dec>>

\* ptsname(&master_fd)
Ptsname(g) ==
    /\ g \in LiveGuards("PtyMaster")
    /\ LET fd == as_raw_fd(guards[g])
       IN  \E k1 \in K_ptsname(fd), k2 \in Retry(K_ptsname(fd)) :
            LET run == ptsname(k1, k2, errno)
            IN  /\ errno' = run.en
                /\ last' = Op("ptsname", g, fd, run, k1)
    /\ UNCHANGED <<client, kernelVars, guards, owned, wds, ev, threads, bufs,
                   dec>>

\* ptsname_r(&master_fd)
PtsnameR(g) ==
    /\ g \in LiveGuards("PtyMaster")
    /\ LET fd == as_raw_fd(guards[g])
       IN  \E k1 \in K_ptsname_r(fd), k2 \in Retry(K_ptsname_r(fd)) :
            LET run == ptsname_r(k1, k2, errno)
            IN  /\ errno' = run.en
                /\ last' = Op("ptsname_r", g, fd, run, k1)
    /\ UNCHANGED <<client, kernelVars, guards, owned, wds, ev, threads, bufs,
                   dec>>

\* guard.as_raw_fd(), on either kind of guard
AsRawFd(g) ==
    /\ g \in LiveGuards("PtyMaster") \cup LiveGuards("InotifyFd")
    /\ last' = Op("as_raw_fd", g, -1, Done(Ok(as_raw_fd(guards[g])), 0, errno),
                  KOk(0))
    /\ UNCHANGED <<client, kernelVars, errno, guards, owned, wds, ev,
                   threads, bufs, dec>>

\* A guard's scope ends: its Drop runs.
DropGuard(g, name) ==
    LET fd == guards[g].fd
    IN  \E k1 \in K_close(fd), k2 \in K_reclose :
         LET run == IF guards[g].kind = "PtyMaster"
                    THEN PtyMaster_drop(k1, k2, errno)
                    ELSE InotifyFd_drop(k1, k2, errno)
         IN  /\ IF run.calls > 0 THEN KCloseIf(fd) ELSE UNCHANGED kernelVars
             /\ guards' = [guards EXCEPT ![g].st = "dropped",
                                         ![g].closes = @ + run.calls]
             /\ errno' = run.en
             /\ last' = Op(name, g, fd, run, k1)

DropPtyMaster(g) ==
    /\ g \in LiveGuards("PtyMaster")
    /\ DropGuard(g, "drop")
    /\ UNCHANGED <<client, owned, wds, ev, threads, bufs, dec>>

\* let fd = master_fd.into_raw_fd()
IntoRawFd(g) ==
    /\ g \in LiveGuards("PtyMaster")
    /\ LET r == into_raw_fd(guards[g])
       IN  /\ owned' = owned \cup {r.fd}
           /\ IF r.drops
              THEN DropGuard(g, "into_raw_fd")
              ELSE /\ guards' = [guards EXCEPT ![g].st = r.st]
                   /\ last' = Op("into_raw_fd", g, -1, Done(Ok(r.fd), 0, errno),
                                 KOk(0))
                   /\ UNCHANGED <<kernelVars, errno>>
    /\ UNCHANGED <<client, wds, ev, threads, bufs, dec>>

\* The kernel's answer to openpty: the two lowest free descriptors.
SecondFree == CHOOSE f \in FreeFds \ {LowestFree} :
                  \A h \in FreeFds \ {LowestFree} : f <= h
K_openpty ==
    IF Cardinality(FreeFds) < 2 THEN {KPairFail("EMFILE")}
    ELSE {KPair(LowestFree, SecondFree)} \cup {KPairFail(c) : c \in KernelErrs}

\* let pty = openpty(winsize, termios), each argument None or Some
Openpty(ws, tio) ==
    /\ client = "pty"
    /\ \E k1 \in K_openpty, k2 \in Retry(K_openpty) :
        LET run == openpty(k1, k2, errno)
        IN  /\ IF Succeeded(run, k1, k2)
               THEN /\ fdtab' = [fdtab EXCEPT ![LowestFree] = "ptm",
                                              ![SecondFree] = "pts"]
                    /\ granted' = granted \cup {LowestFree}
                    /\ unlocked' = unlocked \cup {LowestFree}
               ELSE UNCHANGED <<fdtab, granted, unlocked>>
            /\ owned' = IF run.res.ok
                        THEN owned \cup {run.res.val[1], run.res.val[2]}
                        ELSE owned
            /\ errno' = run.en
            /\ last' = Op("openpty", 0, <<ws, tio>>, run, k1)
    /\ UNCHANGED <<client, watches, nextWd, guards, wds, ev, threads, bufs,
                   dec>>

\* close(fd) by the caller, on a descriptor it owns
CallerClose(fd) ==
    /\ client = "pty"
    /\ fd \in owned
    /\ \E k1 \in K_close(fd), k2 \in K_reclose :
        LET run == unistd_close(k1, k2, errno)
        IN  /\ KCloseIf(fd)
            /\ owned' = owned \ {fd}
            /\ errno' = run.en
            /\ last' = Op("close", 0, fd, run, k1)
    /\ UNCHANGED <<client, guards, wds, ev, threads, bufs, dec>>

\* let ifd = InotifyFd::new(flags)
InotifyNew ==
    /\ client = "inotify"
    /\ Len(guards) < MaxGuards
    /\ \E k1 \in K_open, k2 \in Retry(K_open) :
        LET run == InotifyFd_new(k1, k2, errno)
        IN  /\ IF Succeeded(run, k1, k2)
               THEN fdtab' = [fdtab EXCEPT ![LowestFree] = "inotify"]
               ELSE UNCHANGED fdtab
            /\ guards' = IF run.res.ok
                         THEN Append(guards, NewGuard("InotifyFd", run.res.val))
                         ELSE guards
            /\ errno' = run.en
            /\ last' = Op("new", IF run.res.ok THEN Len(guards) + 1 ELSE 0,
                          -1, run, k1)
    /\ UNCHANGED <<client, granted, unlocked, watches, nextWd, owned, wds,
                   ev, threads, bufs, dec>>

\* ifd.add(path, mask)
InotifyAdd(g, path, mask) ==
    /\ g \in LiveGuards("InotifyFd")
    /\ LET a == InotifyFd_add_args(guards[g], path, mask)
       IN  \E k1 \in K_add(a.fd, a.path, a.mask), k2 \in Retry(K_add(a.fd, a.path, a.mask)) :
            LET run == InotifyFd_add(k1, k2, errno)
            IN  /\ k1.code = "none" => k1.ret <= MaxWd
                /\ IF Succeeded(run, k1, k2)
                   THEN KAdd(a.fd, a.path, a.mask)
                   ELSE UNCHANGED <<watches, nextWd>>
                /\ wds' = IF run.res.ok
                          THEN wds \cup {[wd |-> run.res.val, from |-> g]}
                          ELSE wds
                /\ errno' = run.en
                /\ last' = Op("add", g, [call |-> a, pre |-> WatchesAt(a.fd)], run, k1)
    /\ UNCHANGED <<client, fdtab, granted, unlocked, guards, owned, ev,
                   threads, bufs, dec>>

\* ifd.rm(wd), with any WatchFd the caller holds: tok is the add that
\* returned it.
InotifyRm(g, w) ==
    /\ g \in LiveGuards("InotifyFd")
    /\ w \in WdsOf(wds)
    /\ LET a == InotifyFd_rm_args(guards[g], w)
       IN  \E k1 \in K_rm(a.fd, a.wd), k2 \in Retry(K_rm(a.fd, a.wd)),
              tok \in {x \in wds : x.wd = w} :
            LET run == InotifyFd_rm(k1, k2, errno)
            IN  /\ IF Succeeded(run, k1, k2) /\ IsInotify(a.fd)
                   THEN watches' = [watches EXCEPT ![a.fd] =
                                       {x \in @ : x.wd # a.wd}]
                   ELSE UNCHANGED watches
                /\ errno' = run.en
                /\ last' = Op("rm", g, [call |-> a, pre |-> WatchesAt(a.fd),
                                        token |-> tok], run, k1)
    /\ UNCHANGED <<client, fdtab, granted, unlocked, nextWd, guards, owned,
                   wds, ev, threads, bufs, dec>>

\* The file at a watched path is deleted, as the temporary file of the test
\* is when it goes out of scope, and the path taken by a new file: the
\* kernel removes every watch on the deleted file (IN_IGNORED).
DeletePath(path) ==
    /\ client = "inotify"
    /\ \E f \in Fds : \E w \in watches[f] : w.path = path
    /\ watches' = [f \in Fds |-> {w \in watches[f] : w.path # path}]
    /\ last' = Op("unlink", 0, path, Done(Ok(0), 0, errno), KOk(0))
    /\ UNCHANGED <<client, fdtab, granted, unlocked, nextWd, errno, guards, owned,
                   wds, ev, threads, bufs, dec>>

DropInotifyFd(g) ==
    /\ g \in LiveGuards("InotifyFd")
    /\ DropGuard(g, "drop")
    /\ UNCHANGED <<client, owned, wds, ev, threads, bufs, dec>>

Init ==
    /\ client \in {"pty", "inotify"}
    /\ fdtab = [f \in Fds |-> "free"]
    /\ granted = {}
    /\ unlocked = {}
    /\ watches = [f \in Fds |-> {}]
    /\ nextWd = [f \in Fds |-> 1]
    /\ errno = "none"
    /\ guards = <<>>
    /\ owned = {}
    /\ wds = {}
    /\ last = NoOp
    /\ ev = NoEv
    /\ threads = NoThreads
    /\ bufs = NoBufs
    /\ dec = NoDec

Next ==
    \/ PosixOpenpt
    \/ \E g \in 1 .. MaxGuards : Grantpt(g)
    \/ \E g \in 1 .. MaxGuards : Unlockpt(g)
    \/ \E g \in 1 .. MaxGuards : Ptsname(g)
    \/ \E g \in 1 .. MaxGuards : PtsnameR(g)
    \/ \E g \in 1 .. MaxGuards : AsRawFd(g)
    \/ \E g \in 1 .. MaxGuards : DropPtyMaster(g)
    \/ \E g \in 1 .. MaxGuards : IntoRawFd(g)
    \/ \E ws \in BOOLEAN, tio \in BOOLEAN : Openpty(ws, tio)
    \/ \E fd \in Fds : CallerClose(fd)
    \/ InotifyNew
    \/ \E g \in 1 .. MaxGuards, path \in Paths \cup {NoPath}, mask \in Masks :
          InotifyAdd(g, path, mask)
    \/ \E g \in 1 .. MaxGuards, w \in 1 .. MaxWd : InotifyRm(g, w)
    \/ \E g \in 1 .. MaxGuards : DropInotifyFd(g)
    \/ \E path \in Paths : DeletePath(path)

Spec == Init /\ [][Next]_vars

\* read(ifd, buf) returned the records of b.
ReadEvents(b) ==
    /\ ev.step \in {"idle", "named"}
    /\ ev' = [NoEv EXCEPT !.buf = b, !.step = "read"]
    /\ UNCHANGED <<client, kernelVars, errno, guards, owned, wds, last,
                   threads, bufs, dec>>

\* The caller views record i of the buffer as an InotifyEvent.
ViewEvent(i, p) ==
    /\ ev.step \in {"read", "named"}
    /\ i \in 1 .. Len(ev.buf)
    \* the first byte of a name is not NUL
    /\ ev.buf[i].len > 0 => p # 0
    /\ ev' = [ev EXCEPT !.at = i, !.cur = EventAt(ev.buf, i, p), !.step = "viewed"]
    /\ UNCHANGED <<client, kernelVars, errno, guards, owned, wds, last,
                   threads, bufs, dec>>

\* event.filename()
Filename ==
    /\ ev.step = "viewed"
    /\ ev' = [ev EXCEPT !.span = filename(ev.cur), !.step = "named"]
    /\ UNCHANGED <<client, kernelVars, errno, guards, owned, wds, last,
                   threads, bufs, dec>>

NextEvent ==
    \/ \E b \in Buffers : ReadEvents(b)
    \/ \E i \in 1 .. MaxRecords, p \in Pointers : ViewEvent(i, p)
    \/ Filename

SpecEvent == Init /\ [][NextEvent]_vars

\* decode_events(buffer): the loop over the records of one read. The offset
\* of record i, and the record that starts at an offset.
OffsetOf(b, i) == BytesOf(SubSeq(b, 1, i - 1))
RecordAt(b, off) == CHOOSE i \in 1 .. Len(b) : OffsetOf(b, i) = off

DecodeStart(b) ==
    /\ dec.step \in {"idle", "done"}
    /\ dec' = [buf |-> b, off |-> 0, out |-> <<>>, step |-> "decoding"]
    /\ UNCHANGED <<client, kernelVars, errno, guards, owned, wds, last, ev,
                   threads, bufs>>

\* One turn of the loop: the header at the offset viewed as an InotifyEvent,
\* the event's name taken with filename(), the offset moved past the header
\* and the len bytes of name.
DecodeNext(p) ==
    /\ dec.step = "decoding"
    /\ dec.off < BytesOf(dec.buf)
    /\ LET i == RecordAt(dec.buf, dec.off)
           e == EventAt(dec.buf, i, p)
       IN  /\ e.len > 0 => p # 0
           /\ dec' = [dec EXCEPT
                  !.out = Append(@, [wd |-> e.wd, mask |-> e.mask,
                                     cookie |-> e.cookie, name |-> filename(e)]),
                  !.off = @ + HeaderSize + e.len]
    /\ UNCHANGED <<client, kernelVars, errno, guards, owned, wds, last, ev,
                   threads, bufs>>

DecodeEnd ==
    /\ dec.step = "decoding"
    /\ dec.off >= BytesOf(dec.buf)
    /\ dec' = [dec EXCEPT !.step = "done"]
    /\ UNCHANGED <<client, kernelVars, errno, guards, owned, wds, last, ev,
                   threads, bufs>>

\* ------------------------------------------------------------- bring-up
\* The documented example of posix_openpt: a function that opens a master,
\* grants, unlocks, resolves the name and opens the slave, each step
\* followed by `?`, master_fd going out of scope when the function returns.

\* open(2) of the slave device of that name: it exists while its master is
\* open and opens once it is unlocked.
K_open_slave(name) ==
    IF ~\E f \in Fds : IsPtm(f) /\ SlaveName(f) = name THEN {KFail("ENOENT")}
    ELSE IF \E f \in Fds \ unlocked : IsPtm(f) /\ SlaveName(f) = name THEN {KFail("EIO")}
    ELSE K_open

\* fcntl::open: Errno::result of open(2)
fcntl_open(k1, k2, e0) ==
    LET e1 == ErrnoAfter(e0, k1) IN Done(Errno_result(k1.ret, e1), 1, e1)

\* The function is not running: it has returned, at its end or early from a
\* failed step, and its caller may have gone on.
Returned ==
    \/ last.op \in {"none", "drop", "openpty", "close"}
    \/ last.op = "posix_openpt" /\ ~last.res.ok
\* The step that just ran succeeded, and `?` lets the next one run.
Passed(op) == last.op = op /\ last.res.ok
\* `?` returns from the function: the step that just ran on master_fd failed.
Failed == last.op \in {"grantpt", "unlockpt", "ptsname", "open"} /\ ~last.res.ok

\* let master_fd = posix_openpt(O_RDWR)?;
StepOpenpt == Returned /\ PosixOpenpt
\* grantpt(&master_fd)?;
StepGrantpt == Passed("posix_openpt") /\ Grantpt(last.g)
\* unlockpt(&master_fd)?;
StepUnlockpt == Passed("grantpt") /\ Unlockpt(last.g)
\* let slave_name = ptsname(&master_fd)?;
StepPtsname == Passed("unlockpt") /\ Ptsname(last.g)

\* let slave_fd = open(Path::new(&slave_name), O_RDWR, stat::Mode::empty())?;
\* slave_fd is a RawFd local to the function: nothing closes it.
StepOpenSlave ==
    /\ Passed("ptsname")
    /\ LET slave_name == last.res.val
       IN  \E k1 \in K_open_slave(slave_name), k2 \in Retry(K_open_slave(slave_name)) :
            LET run == fcntl_open(k1, k2, errno)
            IN  /\ IF Succeeded(run, k1, k2)
                   THEN fdtab' = [fdtab EXCEPT ![LowestFree] = "pts"]
                   ELSE UNCHANGED fdtab
                /\ errno' = run.en
                /\ last' = Op("open", last.g, slave_name, run, k1)
    /\ UNCHANGED <<client, granted, unlocked, watches, nextWd, guards, owned, wds,
                   ev, threads, bufs, dec>>

\* The function returns, Ok(()) or the error of the failed step, and
\* master_fd goes out of scope.
StepReturn ==
    /\ Passed("open") \/ Failed
    /\ DropPtyMaster(last.g)

\* What the caller of the function does between two calls of it.
BetweenOpenpty(ws, tio) == Returned /\ Openpty(ws, tio)
BetweenClose(fd) == Returned /\ CallerClose(fd)

NextBringUp ==
    \/ StepOpenpt
    \/ StepGrantpt
    \/ StepUnlockpt
    \/ StepPtsname
    \/ StepOpenSlave
    \/ StepReturn
    \/ \E ws \in BOOLEAN, tio \in BOOLEAN : BetweenOpenpty(ws, tio)
    \/ \E fd \in Fds : BetweenClose(fd)

SpecBringUp == Init /\ [][NextBringUp]_vars

\* ------------------------------------------------------------- names
\* The names the kernel can resolve a master to when nothing is assumed of
\* the mount point of the slave devices: any bytes but NUL, here '/', and
\* 0xC3 0xA9, which are one character in this order and no text otherwise.
NameBytes == {47, 195, 169}
NamesBelow(len) == UNION {[1 .. l -> NameBytes] : l \in 0 .. (len - 1)}

\* ptsname_r(fd, buf, buflen): 0 and a name shorter than buflen, with its
\* NUL, in the buffer; or ERANGE or another failure.
K_ptsname_r_any(fd, buflen) ==
    IF IsPtm(fd)
    THEN {KNameR(InBuffer(n)) : n \in NamesBelow(buflen)}
         \cup {KFailR(c, s) : c \in KernelErrs \cup {"ERANGE"}, s \in BOOLEAN}
    ELSE {KFailR("EBADF", s) : s \in BOOLEAN}
\* ptsname(fd): the name, with its NUL, in the static buffer.
K_ptsname_any(fd) ==
    IF IsPtm(fd)
    THEN {KName(InBuffer(n)) : n \in NamesBelow(NameBufLen)}
         \cup {KNull(c) : c \in KernelErrs}
    ELSE {KNull("EBADF")}

\* ptsname_r(&master_fd), whatever the name is
PtsnameRAny(g) ==
    /\ g \in LiveGuards("PtyMaster")
    /\ LET fd == as_raw_fd(guards[g])
       IN  \E k1 \in K_ptsname_r_any(fd, name_buf.len) :
            LET run == ptsname_r(k1, k1, errno)
            IN  /\ errno' = run.en
                /\ last' = Op("ptsname_r", g, fd, run, k1)
    /\ UNCHANGED <<client, kernelVars, guards, owned, wds, ev, threads, bufs,
                   dec>>

\* ptsname(&master_fd), whatever the name is
PtsnameAny(g) ==
    /\ g \in LiveGuards("PtyMaster")
    /\ LET fd == as_raw_fd(guards[g])
       IN  \E k1 \in K_ptsname_any(fd) :
            LET run == ptsname(k1, k1, errno)
            IN  /\ errno' = run.en
                /\ last' = Op("ptsname", g, fd, run, k1)
    /\ UNCHANGED <<client, kernelVars, guards, owned, wds, ev, threads, bufs,
                   dec>>

NextName ==
    \/ PosixOpenpt
    \/ \E g \in 1 .. MaxGuards : PtsnameRAny(g)
    \/ \E g \in 1 .. MaxGuards : PtsnameAny(g)

SpecName == Init /\ [][NextName]_vars

\* ------------------------------------------------------------- threads
Threads == 1 .. MaxThreads
IdleThread ==
    [pc |-> "idle", fn |-> "none", g |-> 0, buf |-> 0, k |-> KOk(0),
     over |-> {}, clobbered |-> FALSE, errno |-> "none", res |-> Ok(0),
     static |-> {}]

\* The threads writing a name into buffer b right now, and what a read of b
\* can see: a write and a read, or two writes, of the same bytes at the
\* same time are a data race, and every byte is one or the other's.
Writers(b) ==
    {u \in Threads : threads[u].pc = "writing" /\ threads[u].buf = b
                      /\ threads[u].k.code = "none"}
Mixes(S) == {s \in [1 .. NameBufLen -> {c[i] : c \in S, i \in 1 .. NameBufLen}] :
                \A i \in 1 .. NameBufLen : \E c \in S : s[i] = c[i]}
Readable(b) == Mixes({bufs[b]} \cup {threads[u].k.name : u \in Writers(b)})

\* The main thread hands the masters it opened to MaxThreads threads.
StartThreads ==
    /\ threads = NoThreads
    /\ Cardinality(LiveGuards("PtyMaster")) = MaxGuards
    /\ threads' = [t \in Threads |-> IdleThread]
    /\ bufs' = [b \in 0 .. MaxThreads |-> name_buf.bytes]
    /\ UNCHANGED <<client, kernelVars, errno, guards, owned, wds, last, ev, dec>>

\* Thread t enters ptsname or ptsname_r on master g: the libc call starts,
\* and when it is going to succeed it starts to write the name.
ThreadCall(t, fn, g) ==
    /\ threads # NoThreads
    /\ threads[t].pc \in {"idle", "done"}
    /\ g \in LiveGuards("PtyMaster")
    /\ LET fd == as_raw_fd(guards[g])
           b == IF fn = "ptsname" THEN ptsname_buffer(t) ELSE ptsname_r_buffer(t)
       IN  \E k \in IF fn = "ptsname" THEN K_ptsname(fd) ELSE K_ptsname_r(fd) :
             /\ threads' = [u \in Threads |->
                   IF u = t
                   THEN [IdleThread EXCEPT
                           !.pc = "writing", !.fn = fn, !.g = g, !.buf = b, !.k = k,
                           !.over = {threads[w].k.name : w \in Writers(b)},
                           !.clobbered = Writers(b) # {},
                           !.errno = threads[t].errno]
                   ELSE IF threads[u].buf = b /\ threads[u].pc \in {"writing", "returned"}
                           /\ k.code = "none"
                   THEN [threads[u] EXCEPT
                           !.clobbered = TRUE,
                           !.over = IF threads[u].pc = "writing" THEN @ \cup {k.name}
                                    ELSE @]
                   ELSE threads[u]]
             /\ bufs' = IF fn = "ptsname_r" THEN [bufs EXCEPT ![b] = name_buf.bytes]
                        ELSE bufs
    /\ UNCHANGED <<client, kernelVars, errno, guards, owned, wds, last, ev, dec>>

\* The libc call of thread t returns, its write done.
ThreadReturn(t) ==
    /\ threads # NoThreads
    /\ threads[t].pc = "writing"
    /\ LET me == threads[t]
       IN  /\ bufs' \in IF me.k.code = "none"
                         THEN {[bufs EXCEPT ![me.buf] = c] :
                                 c \in Mixes({me.k.name} \cup me.over)}
                         ELSE {bufs}
           /\ threads' = [threads EXCEPT ![t].pc = "returned",
                                         ![t].errno = ErrnoAfter(@, me.k)]
    /\ UNCHANGED <<client, kernelVars, errno, guards, owned, wds, last, ev, dec>>

\* Thread t runs the rest of ptsname or ptsname_r: the error, or the name
\* read from the buffer. The thread's errno is as the libc call left it.
ThreadCopy(t) ==
    /\ threads # NoThreads
    /\ threads[t].pc = "returned"
    /\ LET me == threads[t]
       IN  \E seen \in Readable(me.buf) :
             LET k == [me.k EXCEPT !.name = seen, !.sets = FALSE]
                 run == IF me.fn = "ptsname" THEN ptsname(k, k, me.errno)
                        ELSE ptsname_r(k, k, me.errno)
             IN  threads' = [threads EXCEPT ![t].pc = "done", ![t].res = run.res,
                                            ![t].static =
                                               IF me.fn = "ptsname" THEN Readable(0)
                                               ELSE {}]
    /\ UNCHANGED <<client, kernelVars, errno, guards, owned, wds, last, ev, bufs,
                   dec>>

NextThreads ==
    \/ PosixOpenpt
    \/ StartThreads
    \/ \E t \in Threads, fn \in {"ptsname", "ptsname_r"}, g \in 1 .. MaxGuards :
          ThreadCall(t, fn, g)
    \/ \E t \in Threads : ThreadReturn(t)
    \/ \E t \in Threads : ThreadCopy(t)

SpecThreads == Init /\ [][NextThreads]_vars

NextDecode ==
    \/ \E b \in Buffers : DecodeStart(b)
    \/ \E p \in Pointers : DecodeNext(p)
    \/ DecodeEnd

SpecDecode == Init /\ [][NextDecode]_vars

\* ------------------------------------------------------------- properties
GuardIds == 1 .. Len(guards)
MasterOps == {"grantpt", "unlockpt", "ptsname", "ptsname_r"}
KernelFailed == last.k.code # "none"

\* C1: a guard that went out of scope without its ownership transferred has
\* had exactly one close issued on its descriptor, whatever operations ran
\* on it before: never none and never two; a guard still in scope has had
\* none.
C1_ExactlyOneClose ==
    /\ \A g \in GuardIds :
        /\ guards[g].st = "dropped" => guards[g].closes = 1
        /\ guards[g].st = "live" => guards[g].closes = 0
    /\ last.op = "drop" => last.arg = guards[last.g].fd

\* A PtyMaster was dropped, its close issued once, while another master that
\* grantpt succeeded on is still in scope.
C1_Witness ==
    /\ last.op = "drop"
    /\ guards[last.g].kind = "PtyMaster"
    /\ guards[last.g].closes = 1
    /\ \E g \in GuardIds : guards[g].st = "live" /\ guards[g].fd \in granted

\* C2: into_raw_fd returns the descriptor as_raw_fd reports, makes no kernel
\* call, and ends the guard without a close; a descriptor handed to the
\* caller stays open until the caller closes it.
C2_IntoRawFdTransfers ==
    /\ last.op = "into_raw_fd" =>
        /\ last.res = Ok(as_raw_fd(guards[last.g]))
        /\ last.calls = 0
        /\ guards[last.g].st = "released"
        /\ IsPtm(last.res.val)
    /\ \A g \in GuardIds : guards[g].st = "released" => guards[g].closes = 0
    /\ \A fd \in owned : IsOpen(fd)

\* A master was released to the caller, another guard was dropped after it,
\* and the released descriptor is still the caller's.
C2_Witness ==
    /\ last.op = "drop"
    /\ \E g \in GuardIds :
        /\ guards[g].st = "released"
        /\ g < last.g
        /\ guards[g].fd \in owned

\* C3: when the close a guard's destruction issues fails, destruction still
\* returns normally, having made that one close and no other.
C3_CloseFailureSwallowed ==
    (last.op = "drop" /\ KernelFailed) =>
        /\ last.calls = 1
        /\ last.res = Ok(0)
        /\ guards[last.g].st = "dropped"
        /\ guards[last.g].closes = 1

\* The close issued by the drop of an InotifyFd failed.
C3_Witness ==
    /\ last.op = "drop"
    /\ last.k.code = "EINTR"
    /\ guards[last.g].kind = "InotifyFd"

\* C4: grantpt, unlockpt, ptsname and ptsname_r run only on a PtyMaster that
\* is in scope, and a PtyMaster exists only around the descriptor a
\* successful posix_openpt returned, which is an open master.
C4_LiveMasterOnly ==
    /\ last.op \in MasterOps =>
        /\ last.g \in GuardIds
        /\ guards[last.g].kind = "PtyMaster"
        /\ guards[last.g].st = "live"
        /\ last.arg = guards[last.g].fd
    /\ (last.op = "posix_openpt" /\ last.res.ok) =>
        /\ ~KernelFailed
        /\ guards[last.g] = NewGuard("PtyMaster", last.k.ret)
    /\ \A g \in LiveGuards("PtyMaster") : IsPtm(guards[g].fd)

\* ptsname_r succeeded on the second master, the first one's life being over.
C4_Witness ==
    /\ last.op = "ptsname_r"
    /\ last.res.ok
    /\ last.g = 2
    /\ guards[1].st = "dropped"

AfterGrantOps == {"unlockpt", "ptsname", "ptsname_r"}

FallibleOps ==
    {"posix_openpt", "grantpt", "unlockpt", "ptsname", "ptsname_r", "openpty",
     "new", "add", "rm"}

\* C6: when its kernel call fails, an operation has made that one call and
\* returns an error carrying the code the call failed with.
C6_FailureSurfacedOnce ==
    (last.op \in FallibleOps /\ KernelFailed) =>
        /\ last.calls = 1
        /\ last.res = Err(last.k.code)

\* C7: a successful openpty returns two distinct open descriptors, a master
\* and a slave, that are the caller's; a failed one returns an error; no
\* guard of the library holds a descriptor of the caller's, none of them is
\* closed under it, and the caller's close never finds one already closed.
C7_OpenptyPair ==
    /\ (last.op = "openpty" /\ last.res.ok) =>
        /\ ~KernelFailed
        /\ last.res.val[1] # last.res.val[2]
        /\ IsPtm(last.res.val[1])
        /\ IsOpen(last.res.val[2]) /\ fdtab[last.res.val[2]] = "pts"
        /\ {last.res.val[1], last.res.val[2]} \subseteq owned
    /\ (last.op = "openpty" /\ KernelFailed) => last.res = Err(last.k.code)
    /\ \A fd \in owned :
        /\ IsOpen(fd)
        /\ \A g \in GuardIds : guards[g].st = "live" => guards[g].fd # fd
    /\ last.op = "close" => last.k.code # "EBADF"

\* Both descriptors of an openpty pair have been closed by the caller, the
\* slave last and without error, no guard having ever been constructed.
C7_Witness ==
    /\ last.op = "close"
    /\ last.res.ok
    /\ last.arg = 1
    /\ guards = <<>>
    /\ FreeFds = Fds

InstanceFd == guards[last.g].fd

\* C9: add on an existing path with a mask that has a bit set returns the
\* identifier of that path's watch; rm of an identifier that is a watch of
\* the instance succeeds and removes that watch alone; rm of any other
\* identifier, removed before or never added, fails with EINVAL and leaves
\* the instance's watches as they were.
C9_WatchLifecycle ==
    /\ (last.op = "add" /\ last.arg.call.path \in Paths /\ last.arg.call.mask # 0) =>
        /\ last.res.ok
        /\ \E w \in watches[InstanceFd] :
            w.wd = last.res.val /\ w.path = last.arg.call.path
    /\ (last.op = "rm" /\ last.arg.call.wd \in WdsOf(last.arg.pre)) =>
        /\ last.res.ok
        /\ watches[InstanceFd] = {w \in last.arg.pre : w.wd # last.arg.call.wd}
    /\ (last.op = "rm" /\ last.arg.call.wd \notin WdsOf(last.arg.pre)) =>
        /\ last.res = Err("EINVAL")
        /\ watches[InstanceFd] = last.arg.pre

\* The second rm of an identifier this instance issued failed, another
\* watch of the instance being in place.
C9_Witness ==
    /\ last.op = "rm"
    /\ ~last.res.ok
    /\ [wd |-> last.arg.call.wd, from |-> last.g] \in wds
    /\ last.arg.pre # {}

\* C10: the span filename() exposes lies inside the bytes the read returned.
C10_SpanInsideBuffer ==
    ev.step = "named" =>
        \/ ev.span.len = 0
        \/ /\ BufBase <= ev.span.start
           /\ ev.span.start + ev.span.len <= BufBase + BytesOf(ev.buf)

\* C11: decoding a buffer of n records yields n events in buffer order, the
\* offset having moved by the header size for a record without a name and
\* past header and name for one with a name; the name of an event is empty
\* for the former and the record's trailer for the latter.
C11_DecodeInOrder ==
    /\ dec.step = "done" => Len(dec.out) = Len(dec.buf)
    /\ dec.off = OffsetOf(dec.buf, Len(dec.out) + 1)
    /\ \A i \in 1 .. Len(dec.out) :
        /\ dec.out[i].wd = dec.buf[i].wd
        /\ dec.out[i].name.len = dec.buf[i].len
        /\ dec.buf[i].len > 0 =>
              dec.out[i].name.start = BufBase + OffsetOf(dec.buf, i) + HeaderSize

\* The watch of a path among the watches ws.
WatchOf(ws, path) == CHOOSE w \in ws : w.path = path

\* C12: add for a path the instance already watches returns the identifier
\* of that watch, gives the watch the new mask, and leaves the instance with
\* the same watches otherwise: no second watch for the path, no new
\* identifier.
C12_AddUpserts ==
    (/\ last.op = "add"
     /\ last.arg.call.mask # 0
     /\ \E w \in last.arg.pre : w.path = last.arg.call.path) =>
        LET old == WatchOf(last.arg.pre, last.arg.call.path)
        IN  /\ last.res = Ok(old.wd)
            /\ watches[InstanceFd] =
                  (last.arg.pre \ {old}) \cup {[old EXCEPT !.mask = last.arg.call.mask]}
            /\ Cardinality(watches[InstanceFd]) = Cardinality(last.arg.pre)
            /\ nextWd[InstanceFd] = 1 + Cardinality({w \in wds : w.from = last.g})

\* The second add for a path changed the mask of its watch, the instance
\* watching another path as well.
C12_Witness ==
    /\ last.op = "add"
    /\ last.res.ok
    /\ Cardinality(last.arg.pre) = 2
    /\ \E w \in last.arg.pre :
        /\ w.path = last.arg.call.path
        /\ w.mask # last.arg.call.mask
        /\ w.wd = last.res.val

DoneThreads(fn) == {t \in DOMAIN threads : threads[t].pc = "done" /\ threads[t].fn = fn}
OwnName(t) == SlaveName(guards[threads[t].g].fd)

\* C13: ptsname takes no lock, so that a thread can enter it while another
\* is between its libc call and its copy; the name a call returns is the one
\* it finds in libc's static buffer when it copies, which is the name of its
\* own master when no other call wrote that buffer in between, and only
\* then is bound to be.
C13_PtsnameUnserialised ==
    /\ \A t \in DOMAIN threads :
         (threads[t].pc = "returned" /\ threads[t].fn = "ptsname") =>
            \A u \in Threads \ {t} : \A g \in LiveGuards("PtyMaster") :
               threads[u].pc \in {"idle", "done"} => ENABLED ThreadCall(u, "ptsname", g)
    /\ \A t \in DoneThreads("ptsname") :
         threads[t].res.ok =>
            /\ \E c \in threads[t].static :
                  threads[t].res.val = to_string_lossy(CStr_from_ptr(c))
            /\ ~threads[t].clobbered => threads[t].res.val = OwnName(t)

\* A ptsname call returned a name that is not the slave name of the master
\* it was called on.
C13_Witness ==
    \E t \in DoneThreads("ptsname") :
        threads[t].res.ok /\ threads[t].res.val # OwnName(t)

\* C14: every successful ptsname_r call returns the slave name of the master
\* it was called on, whatever the other threads do meanwhile.
C14_PtsnameRThreadSafe ==
    \A t \in DoneThreads("ptsname_r") :
        threads[t].res.ok => threads[t].res.val = OwnName(t)

\* A ptsname_r call succeeded that ran while another thread was inside
\* ptsname_r on another master.
C14_Witness ==
    \E t \in DoneThreads("ptsname_r") : \E u \in Threads \ {t} :
        /\ threads[t].res.ok
        /\ threads[u].fn = "ptsname_r"
        /\ threads[u].pc \in {"writing", "returned"}
        /\ threads[u].g # threads[t].g
        /\ threads[u].k.code = "none"

\* The name the kernel resolved the master to in the last call.
KernelName == CStr_from_ptr(last.k.name)
DecodingError == Err("InvalidUtf8")

\* C15: ptsname_r returns a system error when its kernel call failed; when
\* the call succeeded it returns the decoding error if the name is not valid
\* text and else the name, byte for byte; it returns the decoding error in
\* no other case, and ptsname never does.
C15_DecodingErrorDistinct ==
    /\ last.op = "ptsname_r" =>
        /\ KernelFailed => (~last.res.ok /\ last.res # DecodingError /\ last.res # Panicked)
        /\ (~KernelFailed /\ ~IsUtf8(KernelName)) => last.res = DecodingError
        /\ (~KernelFailed /\ IsUtf8(KernelName)) => last.res = Ok(KernelName)
    /\ last.op = "ptsname" => last.res # DecodingError

\* ptsname_r returned the decoding error for a name that ends in the first
\* byte of a two-byte character.
C15_Witness ==
    /\ last.op = "ptsname_r"
    /\ last.res = DecodingError
    /\ KernelName = <<47, 195>>

\* C18: when the kernel call of ptsname_r returned 0 the buffer holds a NUL,
\* ptsname_r does not panic, and the name it returns is the bytes of the
\* buffer before its first NUL: none of them NUL, and fewer than the buffer
\* has.
C18_NulFound ==
    (last.op = "ptsname_r" /\ last.k.ret = 0) =>
        /\ FirstNul(last.k.name) > 0
        /\ last.res # Panicked
        /\ last.res.ok =>
            /\ last.res.val = SubSeq(last.k.name, 1, FirstNul(last.k.name) - 1)
            /\ \A i \in 1 .. Len(last.res.val) : last.res.val[i] # 0
            /\ Len(last.res.val) < NameBufLen

\* ptsname_r returned a name that fills the buffer but for the NUL.
C18_Witness ==
    /\ last.op = "ptsname_r"
    /\ last.res.ok
    /\ Len(last.res.val) = NameBufLen - 1

\* The identifier of the last rm was issued by another instance than the one
\* rm was called on.
Foreign == last.arg.token.from # last.g

\* C16 as stated: rm fails when the identifier is not a live watch of the
\* instance, and an instance never accepts an identifier that another
\* instance issued.
C16_ForeignWatchRejected ==
    last.op = "rm" =>
        /\ last.arg.call.wd \notin WdsOf(last.arg.pre) => ~last.res.ok
        /\ Foreign => ~last.res.ok

\* C16, amended: rm acts on the instance it is called on and succeeds
\* exactly when the number of the identifier is that of a live watch of
\* this instance, whichever instance issued the identifier; it fails with
\* EINVAL otherwise, also after the kernel removed the watch of a deleted
\* file; an accepted identifier of another instance removes this instance's
\* watch of that number.
C16_RmByNumber ==
    last.op = "rm" =>
        /\ last.arg.call.fd = InstanceFd
        /\ last.res.ok <=> last.arg.call.wd \in WdsOf(last.arg.pre)
        /\ ~last.res.ok => last.res = Err("EINVAL")
        /\ (Foreign /\ last.res.ok) =>
              watches[InstanceFd] = {w \in last.arg.pre : w.wd # last.arg.call.wd}

\* An instance accepted an identifier that only the other instance issued,
\* and lost its one watch.
C16_Witness ==
    /\ last.op = "rm"
    /\ last.res.ok
    /\ Foreign
    /\ watches[InstanceFd] = {}
    /\ watches[guards[last.arg.token.from].fd] # {}

BringUpOps == {"posix_openpt", "grantpt", "unlockpt", "ptsname", "open"}
\* The master of the bring-up in progress, 0 when the function has returned.
Current == IF last.op \in BringUpOps /\ last.g # 0 THEN last.g ELSE 0

\* C17: in the bring-up function a step runs only after the kernel calls of
\* all steps before it succeeded: unlockpt on a granted master, ptsname on a
\* granted and unlocked one, and the open of the slave on the name of a
\* granted and unlocked master; while the function runs its master is in
\* scope with no close issued and its next statement can run, and once it
\* has returned, by whichever path, exactly one close was issued on every
\* master it opened.
C17_AbortOnFailureCloseOnce ==
    /\ last.op = "unlockpt" => last.arg \in granted
    /\ last.op = "ptsname" => last.arg \in granted \cap unlocked
    /\ last.op = "open" =>
        /\ guards[last.g].fd \in granted \cap unlocked
        /\ last.arg = SlaveName(guards[last.g].fd)
    /\ \A g \in GuardIds :
        IF g = Current
        THEN guards[g].st = "live" /\ guards[g].closes = 0
        ELSE guards[g].st = "dropped" /\ guards[g].closes = 1
    /\ Current # 0 => ENABLED NextBringUp

\* The function returned early from a failed step: no slave was opened, and
\* its master was closed once, by a close that succeeded.
C17_Witness ==
    /\ last.op = "drop"
    /\ last.k.code = "none"
    /\ guards[last.g].closes = 1
    /\ FreeFds = Fds

Allocators == {"posix_openpt", "new"}

\* C19: every guard ever constructed holds a descriptor of the table, the
\* one a successful posix_openpt or inotify_init1 returned; a failed
\* allocation constructs no guard; and the close a drop issues is on a
\* descriptor that is non-negative and open.
C19_GuardsHoldAllocated ==
    /\ \A g \in GuardIds : guards[g].fd \in Fds
    /\ (last.op \in Allocators /\ KernelFailed) => (~last.res.ok /\ last.g = 0)
    /\ (last.op \in Allocators /\ ~KernelFailed) =>
        /\ last.g = Len(guards)
        /\ guards[last.g].fd = last.k.ret
        /\ guards[last.g].st = "live"
        /\ IsOpen(last.k.ret)
    /\ last.op = "drop" => (last.arg >= 0 /\ last.k.code # "EBADF")

\* InotifyFd::new failed while an instance constructed before it is in
\* scope.
C19_Witness ==
    /\ last.op = "new"
    /\ KernelFailed
    /\ Len(guards) = 1
    /\ guards[1].kind = "InotifyFd"
    /\ guards[1].st = "live"

====
